---- MODULE Spec2Model ----
(***************************************************************************)
(* Model of the Stellar transaction CLI.  The repository holds three       *)
(* near-duplicate programs:                                                *)
(*   "network" : src/src/build-transaction.ts lines 1-315 (network         *)
(*               selector, mainnet confirmation, payment/create-account    *)
(*               switching, memo menu)                                     *)
(*   "testnet" : src/src/build-transaction.ts lines 316-560 (testnet only, *)
(*               memo menu, payment only)                                  *)
(*   "infer"   : src/unnamed/part_000 (build only, free-form memo)         *)
(* One run of main() is a state machine that is suspended at every await:  *)
(* a prompt (askQuestion) or a Horizon request.  Each action is the code   *)
(* that runs from one await to the next.                                   *)
(*                                                                         *)
(* Strings whose characters matter are sequences of one-character strings. *)
(***************************************************************************)
EXTENDS Integers, Sequences, FiniteSets, TLC

VARIABLES variant, pc, isMainnet, retries, net, sourceAccount, destination,
          destinationExists, operationType, amount, memoType, txData,
          out, reqs, asked, rlClosed, exitCode, outcome, failed, hist

vars == <<variant, pc, isMainnet, retries, net, sourceAccount, destination,
          destinationExists, operationType, amount, memoType, txData,
          out, reqs, asked, rlClosed, exitCode, outcome, failed, hist>>

(* ------------------------------ bounds --------------------------------- *)
\* how many times one run may re-ask prompts after an invalid answer
MaxRetries == 1
\* largest sequence number the ledger starts with
MaxSeq == 1
\* how many times the ledger may change under the running program
MaxLedgerChanges == 1

(* --------------------------- string helpers ---------------------------- *)
Rep(c, n) == [i \in 1..n |-> c]

Range(s) == {s[i] : i \in DOMAIN s}

Digits == {"0", "1", "2", "3", "4", "5", "6", "7", "8", "9"}

DigitVal(c) ==
  CASE c = "0" -> 0 [] c = "1" -> 1 [] c = "2" -> 2 [] c = "3" -> 3
    [] c = "4" -> 4 [] c = "5" -> 5 [] c = "6" -> 6 [] c = "7" -> 7
    [] c = "8" -> 8 [] c = "9" -> 9

HexChars == Digits \cup {"a", "b", "c", "d", "e", "f", "A", "B", "C", "D", "E", "F"}

\* String.prototype.toLowerCase on the letters the inputs use
LowerChar(c) ==
  CASE c = "Y" -> "y" [] c = "E" -> "e" [] c = "S" -> "s"
    [] c = "N" -> "n" [] c = "O" -> "o" [] OTHER -> c

ToLowerCase(s) == [i \in DOMAIN s |-> LowerChar(s[i])]

\* number of leading characters of s that belong to set
RECURSIVE SpanLen(_, _)
SpanLen(s, set) ==
  IF s = <<>> \/ Head(s) \notin set THEN 0 ELSE 1 + SpanLen(Tail(s), set)

Drop(s, n) == SubSeq(s, n + 1, Len(s))

StartsWith(s, p) == Len(s) >= Len(p) /\ SubSeq(s, 1, Len(p)) = p

\* UTF-8 width of one character: "U+00E9" (e acute) takes two bytes,
\* "U+20AC" (euro sign) three, the ASCII characters one
Utf8Width(c) ==
  CASE c = "U+00E9" -> 2 [] c = "U+20AC" -> 3 [] OTHER -> 1

RECURSIVE SumWidth(_)
SumWidth(s) == IF s = <<>> THEN 0 ELSE Utf8Width(Head(s)) + SumWidth(Tail(s))

(* ----------------------------- constants ------------------------------- *)
TESTNET_CONFIG ==
  [horizon |-> "https://horizon-testnet.stellar.org",
   passphrase |-> "Test SDF Network ; September 2015"]

MAINNET_CONFIG ==
  [horizon |-> "https://horizon.stellar.org",
   passphrase |-> "Public Global Stellar Network ; September 2015"]

\* the 32 bytes of the Buffer, in hexadecimal
TESTNET_NETWORK_HASH ==
  "cee0302d7fc5273c886db149a53b0f4402ec4c25b61a0c8b248e63724f2f66fb"

MAINNET_NETWORK_HASH ==
  "7ac33997544e3175d266bd022439b22cdb16508c01163f26e5cb2a3e1045a979"

\* '1.0000000'
MIN_ACCOUNT_BALANCE == <<"1", ".", "0", "0", "0", "0", "0", "0", "0">>

\* 18446744073709551615n, as decimal digits
U64Max == <<1, 8, 4, 4, 6, 7, 4, 4, 0, 7, 3, 7, 0, 9, 5, 5, 1, 6, 1, 5>>

NoMemo == [type |-> "none", value |-> <<>>]

NoAccount == [loaded |-> FALSE, sequence |-> 0]

NoTx == [built |-> FALSE]

(* --------------------------- pure functions ---------------------------- *)
\* a slip the validator could hold: the checksum not verified
isValidStellarAddressNoChecksum(address) ==
  address.ver = "G" /\ address.len = 56

\* Keypair.fromPublicKey succeeds on a 56-character "G..." strkey whose
\* checksum is right.  An address is [ver, len, crc, id].
isValidStellarAddress(address) ==
  address.ver = "G" /\ address.len = 56 /\ address.crc

getByteLength(str) == SumWidth(str)

isValidHex(str, expectedLength) ==
  /\ str # <<>> /\ \A i \in DOMAIN str : str[i] \in HexChars
  /\ Len(str) = expectedLength

RECURSIVE DecVal(_)
\* value of a string of decimal digits
DecVal(s) ==
  IF s = <<>> THEN 0 ELSE DecVal(SubSeq(s, 1, Len(s) - 1)) * 10 + DigitVal(s[Len(s)])

\* seven fractional digits as an integer (digits past the seventh dropped)
Frac7(s) == DecVal(SubSeq(s \o Rep("0", 7), 1, 7))

NaN == [k |-> "nan", v |-> 0]

InfinityStr == <<"I", "n", "f", "i", "n", "i", "t", "y">>

\* parseFloat, on the grammar [+-] (Infinity | digits [. digits]) followed by
\* anything; the value is in units of 10^-7.  Exponents are not modelled.
ParseFloat(s) ==
  LET signed == s # <<>> /\ Head(s) \in {"-", "+"}
      sign == IF s # <<>> /\ Head(s) = "-" THEN -1 ELSE 1
      body == IF signed THEN Tail(s) ELSE s
      ni == SpanLen(body, Digits)
      afterInt == Drop(body, ni)
      hasDot == afterInt # <<>> /\ Head(afterInt) = "."
      fracS == IF hasDot THEN Tail(afterInt) ELSE <<>>
      nf == SpanLen(fracS, Digits)
  IN IF StartsWith(body, InfinityStr) THEN [k |-> "inf", v |-> sign]
     ELSE IF ni = 0 /\ nf = 0 THEN NaN
     ELSE [k |-> "num",
           v |-> sign * (DecVal(SubSeq(body, 1, ni)) * 10000000
                          + Frac7(SubSeq(fracS, 1, nf)))]

isNaN(x) == x.k = "nan"

\* x <= 0 and x < y on parsed numbers (any comparison with NaN is false)
LeqZero(x) == (x.k = "num" /\ x.v <= 0) \/ (x.k = "inf" /\ x.v < 0)

LessThan(x, y) ==
  \/ x.k = "num" /\ y.k = "num" /\ x.v < y.v
  \/ x.k = "inf" /\ x.v < 0 /\ ~(y.k = "inf" /\ y.v < 0) /\ y.k # "nan"
  \/ y.k = "inf" /\ y.v > 0 /\ x.k = "num"

DigitChar(n) ==
  CASE n = 0 -> "0" [] n = 1 -> "1" [] n = 2 -> "2" [] n = 3 -> "3"
    [] n = 4 -> "4" [] n = 5 -> "5" [] n = 6 -> "6" [] n = 7 -> "7"
    [] n = 8 -> "8" [] n = 9 -> "9"

RECURSIVE ToDec(_)
ToDec(n) == IF n < 10 THEN <<DigitChar(n)>> ELSE ToDec(n \div 10) \o <<DigitChar(n % 10)>>

RECURSIVE Pad7(_)
Pad7(s) == IF Len(s) >= 7 THEN s ELSE Pad7(<<"0">> \o s)

\* Number.prototype.toFixed(7)
ToFixed7(x) ==
  IF x.k = "nan" THEN <<"N", "a", "N">>
  ELSE IF x.k = "inf" THEN (IF x.v < 0 THEN <<"-">> ELSE <<>>) \o InfinityStr
  ELSE LET a == IF x.v < 0 THEN -x.v ELSE x.v
       IN (IF x.v < 0 THEN <<"-">> ELSE <<>>)
          \o ToDec(a \div 10000000) \o <<".">> \o Pad7(ToDec(a % 10000000))

formatAmount(amt) == ToFixed7(ParseFloat(amt))

\* the SDK's operation constructors take an amount that is a positive decimal
\* with at most seven fractional digits, and throw on anything else
SdkAmountOk(str) ==
  /\ str # <<>> /\ Head(str) \in Digits
  /\ ParseFloat(str).k = "num" /\ ParseFloat(str).v > 0

RECURSIVE StripZeros(_)
StripZeros(d) == IF Len(d) > 1 /\ Head(d) = 0 THEN StripZeros(Tail(d)) ELSE d

\* BigInt(string): the empty string is 0n, a signed run of decimal digits is
\* its value, anything else is a SyntaxError.  Prefixed literals (0x, 0o, 0b)
\* are not modelled.
BigInt(s) ==
  LET signed == s # <<>> /\ Head(s) \in {"-", "+"}
      body == IF signed THEN Tail(s) ELSE s
  IN IF s = <<>> THEN [ok |-> TRUE, neg |-> FALSE, mag |-> <<0>>]
     ELSE IF body = <<>> \/ SpanLen(body, Digits) # Len(body)
       THEN [ok |-> FALSE, neg |-> FALSE, mag |-> <<0>>]
     ELSE LET m == StripZeros([i \in DOMAIN body |-> DigitVal(body[i])])
          IN [ok |-> TRUE, neg |-> Head(s) = "-" /\ m # <<0>>, mag |-> m]

RECURSIVE LexGreater(_, _)
LexGreater(a, b) ==
  IF a = <<>> THEN FALSE
  ELSE IF Head(a) # Head(b) THEN Head(a) > Head(b)
  ELSE LexGreater(Tail(a), Tail(b))

\* a > b on magnitudes without leading zeros
MagGreater(a, b) == Len(a) > Len(b) \/ (Len(a) = Len(b) /\ LexGreater(a, b))

\* Memo.id of the SDK wants a string that BigNumber reads as a finite number
SdkMemoIdOk(s) ==
  LET body == IF s # <<>> /\ Head(s) \in {"-", "+"} THEN Tail(s) ELSE s
  IN body # <<>> /\ SpanLen(body, Digits) = Len(body)

\* Memo.text of the SDK wants at most 28 bytes of UTF-8
SdkMemoTextOk(s) == SumWidth(s) <= 28

\* Memo.hash and Memo.return of the SDK want 64 hexadecimal characters
SdkMemoHashOk(s) == Len(s) = 64 /\ \A i \in DOMAIN s : s[i] \in HexChars

(* ------------------------------ inputs --------------------------------- *)
Variants == {"network", "testnet", "infer"}

SOURCE_PUBLIC_KEY == "GDBKSMQZAJ3DBIM55BAWY7I4QSRUHZ3IOJV2YJAVQHWUXMGIDVS5MGNM"

NoAddress == [ver |-> "", len |-> 0, crc |-> FALSE]

\* what the user may type at 'Destination address: '
Addresses ==
  { [ver |-> "G", len |-> 56, crc |-> TRUE],
    [ver |-> "G", len |-> 56, crc |-> FALSE],
    [ver |-> "G", len |-> 55, crc |-> TRUE],
    [ver |-> "S", len |-> 56, crc |-> TRUE],
    NoAddress }

\* what the user may type at 'Amount (XLM): '
AmountInputs ==
  { <<>>, <<"a", "b", "c">>, <<"0">>, <<"-", "5">>, <<"0", ".", "5">>,
    <<"1">>, InfinityStr, <<"-">> \o InfinityStr }

\* what the user may type at 'Enter memo value: ' and at 'Memo (optional): '
MemoInputs ==
  { <<>>, Rep("a", 28), Rep("a", 29),
    Rep("U+00E9", 14), Rep("U+00E9", 14) \o <<"a">>,
    <<"0">>, <<"-", "1">>,
    <<"1", "8", "4", "4", "6", "7", "4", "4", "0", "7", "3", "7", "0", "9",
      "5", "5", "1", "6", "1", "5">>,
    <<"1", "8", "4", "4", "6", "7", "4", "4", "0", "7", "3", "7", "0", "9",
      "5", "5", "1", "6", "1", "6">>,
    Rep("9", 19),
    Rep("a", 63), Rep("0", 32) \o Rep("F", 32), Rep("a", 65), Rep("g", 64) }

\* what the user may type at 'Continue? (yes/no): '
ConfirmInputs ==
  { <<"y", "e", "s">>, <<"Y", "E", "S">>, <<"Y", "e", "s">>, <<"n", "o">>,
    <<"y">>, <<>> }

XdrInputs == {"signed envelope", "garbage"}

\* what Horizon may answer to loadAccount
LoadReplies(exists) == (IF exists THEN {"ok"} ELSE {"notFound"}) \cup {"error"}

\* the error the SDK throws for a failed request
HttpError(reply) ==
  IF reply = "notFound"
  THEN [status |-> 404, message |-> <<"Request failed with status code 404">>]
  ELSE [status |-> 500, message |-> <<"Request failed with status code 500">>]

\* what Horizon may answer to submitTransaction
SubmitReplies ==
  { [k |-> "success", hash |-> "hash1", ledger |-> 7],
    [k |-> "success", hash |-> "hash2", ledger |-> 8],
    [k |-> "rejected", codes |-> "tx_bad_seq"],
    [k |-> "rejected", codes |-> "tx_failed/op_no_destination"],
    [k |-> "error", message |-> <<"timeout of 60000ms exceeded">>] }

(* ---------------------------- error texts ------------------------------ *)
FundItFirst(v) ==
  <<"Source account ", SOURCE_PUBLIC_KEY,
    IF v = "network" THEN " not found on network. Fund it first!"
                     ELSE " not found on testnet. Fund it first!">>

IsFundMessage(m) ==
  \E i \in DOMAIN m : m[i] \in {" not found on network. Fund it first!",
                                " not found on testnet. Fund it first!"}

Plain(message) == [status |-> 0, message |-> message]

\* checkAccountActivation's catch
ActivationError(v, err) ==
  IF err.status = 404 THEN Plain(FundItFirst(v))
  ELSE Plain(<<"Failed to check account: ">> \o err.message)

\* buildStellarTransaction's catch
BuildCatch(v, err) ==
  IF v = "infer" /\ err.status = 404 THEN Plain(FundItFirst(v))
  ELSE Plain(<<"Failed to build transaction: ">> \o err.message)

(* ------------------------------ memo ----------------------------------- *)
Thrown(message) == [ok |-> FALSE, memo |-> NoMemo, message |-> message]

Returned(memo) == [ok |-> TRUE, memo |-> memo, message |-> <<>>]

\* a slip the range test could hold: the upper limit left out
idOutOfRangeNoUpper(idValue) == idValue.neg

\* idValue < 0n || idValue > 18446744073709551615n
idOutOfRange(idValue) == idValue.neg \/ MagGreater(idValue.mag, U64Max)

\* getMemoInput after the two prompts: the switch on memoType
getMemoInput(type, memoValue) ==
  CASE type = "1" ->
         IF getByteLength(memoValue) > 28
         THEN Thrown(<<"TEXT memo exceeds 28 bytes">>)
         ELSE IF ~SdkMemoTextOk(memoValue)
           THEN Thrown(<<"Expects string, array or buffer, max 28 bytes">>)
         ELSE Returned([type |-> "text", value |-> memoValue])
    [] type = "2" ->
         LET idValue == BigInt(memoValue)
         IN IF ~idValue.ok THEN Thrown(<<"Cannot convert to a BigInt">>)
            ELSE IF idOutOfRange(idValue)
              THEN Thrown(<<"ID memo must be between 0 and 18446744073709551615">>)
            ELSE IF ~SdkMemoIdOk(memoValue)
              THEN Thrown(<<"Expects a int64 as a string. Got ">>)
            ELSE Returned([type |-> "id", value |-> memoValue])
    [] type = "3" ->
         IF ~isValidHex(memoValue, 64)
         THEN Thrown(<<"HASH memo must be 64 hex characters (32 bytes)">>)
         ELSE IF ~SdkMemoHashOk(memoValue)
           THEN Thrown(<<"Expects a 32 byte hash value or hex encoded string">>)
         ELSE Returned([type |-> "hash", value |-> memoValue])
    [] type = "4" ->
         IF ~isValidHex(memoValue, 64)
         THEN Thrown(<<"RETURN memo must be 64 hex characters (32 bytes)">>)
         ELSE IF ~SdkMemoHashOk(memoValue)
           THEN Thrown(<<"Expects a 32 byte hash value or hex encoded string">>)
         ELSE Returned([type |-> "return", value |-> memoValue])
    [] OTHER -> Returned(NoMemo)

\* a slip the shape test could hold: the length limit left out
InferIsIdAnyLength(memo) == SpanLen(memo, Digits) = Len(memo)

\* part_000: /^\d+$/.test(memo) && memo.length <= 19, on a non-empty memo
InferIsId(memo) ==
  SpanLen(memo, Digits) = Len(memo) /\ Len(memo) <= 19

inferMemo(memoInput) ==
  IF memoInput = <<>> THEN Returned(NoMemo)
  ELSE IF InferIsId(memoInput)
    THEN Returned([type |-> "id", value |-> memoInput])
  ELSE IF ~SdkMemoTextOk(memoInput)
    THEN Thrown(<<"Expects string, array or buffer, max 28 bytes">>)
  ELSE Returned([type |-> "text", value |-> memoInput])

(* ---------------------------- assembly --------------------------------- *)
\* a slip main could hold: the testnet configuration whatever was chosen
ConfigAlwaysTestnet(mainnet) == TESTNET_CONFIG

\* const config = isMainnet ? MAINNET_CONFIG : TESTNET_CONFIG
Config(mainnet) == IF mainnet THEN MAINNET_CONFIG ELSE TESTNET_CONFIG

NetworkHash(mainnet) == IF mainnet THEN MAINNET_NETWORK_HASH ELSE TESTNET_NETWORK_HASH

\* TransactionBuilder.build(): the transaction takes the account's sequence
\* number plus one ...
TxSequence(account) == account.sequence + 1

\* ... and build() then increments the account object it was given
\* (incrementSequenceNumber), which the AccountResponse mirrors in .sequence
AfterBuild(account) == [account EXCEPT !.sequence = account.sequence + 1]

\* details.sequence: (parseInt(sourceAccount.sequence) + 1), read after build()
DetailsSequence(account) == account.sequence + 1

\* setTimeout(0) in the network variant, setTimeout(30) in the others
Timeout(v) == IF v = "network" THEN 0 ELSE 30

\* the code from `new TransactionBuilder` to `return transactionData`
assemble(v, mainnet, account, dest, opType, amt, memoRes) ==
  IF ~SdkAmountOk(formatAmount(amt))
  THEN [ok |-> FALSE, tx |-> NoTx, account |-> account,
        message |-> <<"amount argument must be of type String, represent a positive number and have at most 7 digits after the decimal">>]
  ELSE IF ~memoRes.ok
  THEN [ok |-> FALSE, tx |-> NoTx, account |-> account, message |-> memoRes.message]
  ELSE [ok |-> TRUE, message |-> <<>>,
        account |-> AfterBuild(account),
        tx |-> [built |-> TRUE,
                source |-> SOURCE_PUBLIC_KEY,
                sequence |-> TxSequence(account),
                fee |-> "100",
                op |-> [type |-> opType, destination |-> dest,
                        amount |-> formatAmount(amt)],
                memo |-> memoRes.memo,
                timeout |-> Timeout(v),
                passphrase |-> Config(mainnet).passphrase,
                networkHash |-> NetworkHash(mainnet),
                details |-> [destination |-> dest,
                             amount |-> formatAmount(amt),
                             memo |-> memoRes.memo.value,
                             fee |-> "0.00001",
                             sequence |-> DetailsSequence(AfterBuild(account))]]]

(* ------------------------------ state ---------------------------------- *)
NoHist ==
  [src404 |-> FALSE, dstAtCheck |-> "unchecked", lookup |-> "none",
   loadedSeq |-> -1, amtSeen |-> FALSE, amtIn |-> <<>>, amtAccepted |-> FALSE,
   memoSeen |-> FALSE, memoIn |-> <<>>, memoAsked |-> FALSE,
   memoRes |-> Returned(NoMemo), bcast |-> [k |-> "none"],
   confirm |-> <<"-">>, passphrase |-> ""]

Log(text) == [s |-> "log", t |-> text]

Err(text) == [s |-> "error", t |-> text]

NetworkMenu ==
  <<Log(<<"Select network:">>), Log(<<"1. Testnet">>), Log(<<"2. Mainnet">>)>>

OperationMenu ==
  <<Log(<<"Select operation:">>), Log(<<"1. Create unsigned transaction">>),
    Log(<<"2. Broadcast signed transaction">>)>>

MemoMenu ==
  <<Log(<<"Memo types:">>), Log(<<"1. TEXT (max 28 bytes)">>),
    Log(<<"2. ID (0 to 18446744073709551615)">>), Log(<<"3. HASH (32 byte hex)">>),
    Log(<<"4. RETURN (32 byte hex)">>), Log(<<"5. None">>)>>

Init ==
  /\ variant \in Variants
  /\ pc = CASE variant = "network" -> "selectNetwork"
            [] variant = "testnet" -> "selectOperation"
            [] OTHER -> "loadSource"
  /\ isMainnet = FALSE
  /\ retries = 0
  /\ net \in [srcExists : BOOLEAN, dstExists : BOOLEAN, seq : 0..MaxSeq, changes : {0}]
  /\ sourceAccount = NoAccount
  /\ destination = NoAddress
  /\ destinationExists = TRUE
  /\ operationType = "payment"
  /\ amount = <<>>
  /\ memoType = ""
  /\ txData = NoTx
  /\ out = CASE variant = "network" -> NetworkMenu
             [] variant = "testnet" -> OperationMenu
             [] OTHER -> <<Log(<<"Loading source account...">>)>>
  /\ reqs = <<>>
  /\ asked = 0
  /\ rlClosed = FALSE
  /\ exitCode = -1
  /\ outcome = "running"
  /\ failed = FALSE
  /\ hist = NoHist

\* the exit status of process.exit(1) in main's catch
CatchExitCode == 1

\* the exit status of a process whose main() returned
NormalExitCode == 0

\* a slip main's catch could hold: the error printed, process.exit left out,
\* so that main returns through its finally block
MainCatchNoExit(err) ==
  /\ out' = Append(out, Err(<<"Error:">> \o err.message))
  /\ exitCode' = NormalExitCode
  /\ rlClosed' = TRUE
  /\ outcome' = "caught"
  /\ pc' = "done"

\* main's catch: console.error('Error:', error.message); process.exit(1).
\* process.exit ends the process inside the catch block, so the finally
\* block (rl.close()) is never run on this path.
MainCatch(err) ==
  /\ out' = Append(out, Err(<<"Error:">> \o err.message))
  /\ exitCode' = CatchExitCode
  /\ rlClosed' = rlClosed
  /\ outcome' = "caught"
  /\ pc' = "done"

\* main returns: the finally block closes rl and the process ends by itself
MainReturn(lines, how) ==
  /\ out' = out \o lines
  /\ rlClosed' = TRUE
  /\ exitCode' = NormalExitCode
  /\ outcome' = how
  /\ pc' = "done"

\* main goes on to its next await
MainGoes(lines, next) ==
  /\ out' = out \o lines
  /\ pc' = next
  /\ UNCHANGED <<rlClosed, exitCode, outcome>>

\* a request to the Horizon server of the chosen configuration
Request(kind, reply) ==
  reqs' = Append(reqs, [kind |-> kind, reply |-> reply,
                        horizon |-> Config(isMainnet).horizon])

Prompt == asked' = asked + 1

CanRetry == retries < MaxRetries

(* ------------------------------ main ----------------------------------- *)
\* 'Choose network (1-2): ' and the code up to the next prompt
SelectNetwork ==
  /\ pc = "selectNetwork"
  /\ \E networkChoice \in {"1", "2", "3"} :
       /\ Prompt
       /\ IF networkChoice \in {"1", "2"}
          THEN /\ isMainnet' = (networkChoice = "2")
               /\ retries' = retries
               /\ IF networkChoice = "2"
                  THEN MainGoes(<<Log(<<"WARNING: You are using MAINNET - real XLM will be transferred!">>)>>,
                                "confirm")
                  ELSE MainGoes(OperationMenu, "selectOperation")
          ELSE /\ CanRetry
               /\ retries' = retries + 1
               /\ isMainnet' = isMainnet
               /\ MainGoes(<<>>, "selectNetwork")
  /\ UNCHANGED <<variant, net, sourceAccount, destination, destinationExists,
                 operationType, amount, memoType, txData, reqs, failed, hist>>

\* 'Continue? (yes/no): '
ConfirmMainnet ==
  /\ pc = "confirm"
  /\ \E confirm \in ConfirmInputs :
       /\ Prompt
       /\ hist' = [hist EXCEPT !.confirm = confirm]
       /\ IF ToLowerCase(confirm) # <<"y", "e", "s">>
          THEN MainReturn(<<Log(<<"Operation cancelled.">>)>>, "cancelled")
          ELSE MainGoes(OperationMenu, "selectOperation")
  /\ UNCHANGED <<variant, isMainnet, retries, net, sourceAccount, destination,
                 destinationExists, operationType, amount, memoType, txData,
                 reqs, failed>>

\* 'Choose option (1-2): '
SelectOperation ==
  /\ pc = "selectOperation"
  /\ \E choice \in {"1", "2", "3"} :
       /\ Prompt
       /\ IF choice = "1" THEN retries' = retries /\ MainGoes(<<>>, "checkActivation")
          ELSE IF choice = "2" THEN retries' = retries /\ MainGoes(<<>>, "askXdr")
          ELSE /\ CanRetry
               /\ retries' = retries + 1
               /\ MainGoes(<<>>, "selectOperation")
  /\ UNCHANGED <<variant, isMainnet, net, sourceAccount, destination,
                 destinationExists, operationType, amount, memoType, txData,
                 reqs, failed, hist>>

(* ------------------------ buildStellarTransaction ---------------------- *)
\* await checkAccountActivation(server): the first load of the source account
CheckAccountActivation ==
  /\ pc = "checkActivation"
  /\ \E reply \in LoadReplies(net.srcExists) :
       /\ Request("loadSource", reply)
       /\ hist' = [hist EXCEPT !.src404 = @ \/ reply = "notFound"]
       /\ IF reply = "ok"
          THEN failed' = failed /\ MainGoes(<<>>, "loadSource")
          ELSE /\ failed' = TRUE
               /\ MainCatch(BuildCatch(variant, ActivationError(variant, HttpError(reply))))
  /\ UNCHANGED <<variant, isMainnet, retries, net, sourceAccount, destination,
                 destinationExists, operationType, amount, memoType, txData,
                 asked>>

\* const sourceAccount = await server.loadAccount(SOURCE_PUBLIC_KEY)
LoadSourceAccount ==
  /\ pc = "loadSource"
  /\ \E reply \in LoadReplies(net.srcExists) :
       /\ Request("loadSource", reply)
       /\ IF reply = "ok"
          THEN /\ sourceAccount' = [loaded |-> TRUE, sequence |-> net.seq]
               /\ hist' = [hist EXCEPT !.loadedSeq = net.seq]
               /\ failed' = failed
               /\ MainGoes(<<>>, "askDestination")
          ELSE /\ sourceAccount' = sourceAccount
               /\ hist' = [hist EXCEPT !.src404 = @ \/ reply = "notFound"]
               /\ failed' = TRUE
               /\ MainCatch(BuildCatch(variant, HttpError(reply)))
  /\ UNCHANGED <<variant, isMainnet, retries, net, destination,
                 destinationExists, operationType, amount, memoType, txData,
                 asked>>

\* the 'Destination address: ' loop
AskDestination ==
  /\ pc = "askDestination"
  /\ \E answer \in Addresses :
       /\ Prompt
       /\ destination' = answer
       /\ IF isValidStellarAddress(answer)
          THEN /\ retries' = retries
               /\ MainGoes(<<>>, IF variant = "network" THEN "checkDestination"
                                 ELSE "askAmount")
          ELSE /\ CanRetry
               /\ retries' = retries + 1
               /\ MainGoes(<<Log(<<"Invalid address">>)>>, "askDestination")
  /\ UNCHANGED <<variant, isMainnet, net, sourceAccount, destinationExists,
                 operationType, amount, memoType, txData, reqs, failed, hist>>

\* checkDestinationAccountExists: false on a 404, true on every other answer
checkDestinationAccountExists(reply) == reply # "notFound"

\* const destinationExists = await checkDestinationAccountExists(...) and the
\* choice of the operation type
CheckDestination ==
  /\ pc = "checkDestination"
  /\ \E reply \in LoadReplies(net.dstExists) :
       /\ Request("loadDestination", reply)
       /\ hist' = [hist EXCEPT !.lookup = reply,
                               !.dstAtCheck = IF net.dstExists THEN "exists" ELSE "absent"]
       /\ destinationExists' = checkDestinationAccountExists(reply)
       /\ failed' = (failed \/ reply = "error")
       /\ IF ~checkDestinationAccountExists(reply)
          THEN /\ operationType' = "createAccount"
               /\ MainGoes(<<Log(<<"Destination address not activated switching operation to Create Account">>)>>,
                           "askAmount")
          ELSE /\ operationType' = "payment"
               /\ MainGoes(<<>>, "askAmount")
  /\ UNCHANGED <<variant, isMainnet, retries, net, sourceAccount, destination,
                 amount, memoType, txData, asked>>

\* the test of the 'Amount (XLM): ' loop on one answer
amountCheck(v, opType, amt) ==
  LET amountNum == ParseFloat(amt)
  IN IF isNaN(amountNum) \/ LeqZero(amountNum) THEN "invalid"
     ELSE IF /\ v = "network"
             /\ opType = "createAccount"
             /\ LessThan(amountNum, ParseFloat(MIN_ACCOUNT_BALANCE))
       THEN "belowReserve"
     ELSE "ok"

\* the 'Amount (XLM): ' loop
AskAmount ==
  /\ pc = "askAmount"
  /\ \E answer \in AmountInputs :
       /\ Prompt
       /\ amount' = answer
       /\ hist' = [hist EXCEPT !.amtSeen = TRUE, !.amtIn = answer,
                               !.amtAccepted = (amountCheck(variant, operationType, answer) = "ok")]
       /\ IF amountCheck(variant, operationType, answer) = "ok"
          THEN /\ retries' = retries
               /\ IF variant = "infer" THEN MainGoes(<<>>, "askMemo")
                  ELSE MainGoes(MemoMenu, "memoType")
          ELSE /\ CanRetry
               /\ retries' = retries + 1
               /\ IF amountCheck(variant, operationType, answer) = "invalid"
                  THEN MainGoes(<<Log(<<"Invalid amount">>)>>, "askAmount")
                  ELSE MainGoes(<<Log(<<"Create Account requires minimum 1.0000000 XLM">>)>>,
                                "askAmount")
  /\ UNCHANGED <<variant, isMainnet, net, sourceAccount, destination,
                 destinationExists, operationType, memoType, txData, reqs, failed>>

\* the end of buildStellarTransaction, displayTransaction and main's return,
\* or the two catch blocks when the assembly throws
Finish(res) ==
  IF res.ok
  THEN /\ txData' = res.tx
       /\ sourceAccount' = res.account
       /\ failed' = failed
       /\ MainReturn(<<Log(<<"<envelope xdr>">>)>>, "completed")
  ELSE /\ txData' = txData
       /\ sourceAccount' = sourceAccount
       /\ failed' = TRUE
       /\ MainCatch(BuildCatch(variant, Plain(res.message)))

\* 'Select memo type (1-5): '
SelectMemoType ==
  /\ pc = "memoType"
  /\ \E answer \in {"1", "2", "3", "4", "5", "6"} :
       /\ Prompt
       /\ IF answer = "5"
          THEN /\ memoType' = answer
               /\ retries' = retries
               /\ hist' = [hist EXCEPT !.memoSeen = TRUE, !.memoAsked = FALSE,
                                       !.memoRes = Returned(NoMemo)]
               /\ Finish(assemble(variant, isMainnet, sourceAccount, destination,
                                  operationType, amount, Returned(NoMemo)))
          ELSE IF answer \in {"1", "2", "3", "4"}
          THEN /\ memoType' = answer
               /\ retries' = retries
               /\ MainGoes(<<>>, "memoValue")
               /\ UNCHANGED <<txData, sourceAccount, failed, hist>>
          ELSE /\ CanRetry
               /\ retries' = retries + 1
               /\ MainGoes(<<>>, "memoType")
               /\ UNCHANGED <<memoType, txData, sourceAccount, failed, hist>>
  /\ UNCHANGED <<variant, isMainnet, net, destination, destinationExists,
                 operationType, amount, reqs>>

\* 'Enter memo value: ', the switch of getMemoInput and the assembly
EnterMemoValue ==
  /\ pc = "memoValue"
  /\ \E memoValue \in MemoInputs :
       LET memo == getMemoInput(memoType, memoValue)
       IN /\ Prompt
          /\ hist' = [hist EXCEPT !.memoSeen = TRUE, !.memoAsked = TRUE,
                                  !.memoIn = memoValue, !.memoRes = memo]
          /\ IF memo.ok
             THEN Finish(assemble(variant, isMainnet, sourceAccount, destination,
                                  operationType, amount, memo))
             ELSE /\ failed' = TRUE
                  /\ MainCatch(BuildCatch(variant, Plain(memo.message)))
                  /\ UNCHANGED <<txData, sourceAccount>>
  /\ UNCHANGED <<variant, isMainnet, retries, net, destination,
                 destinationExists, operationType, amount, memoType, reqs>>

\* part_000: 'Memo (optional): ' and the assembly
AskMemo ==
  /\ pc = "askMemo"
  /\ \E memoInput \in MemoInputs :
       /\ Prompt
       /\ hist' = [hist EXCEPT !.memoSeen = TRUE, !.memoAsked = TRUE,
                               !.memoIn = memoInput, !.memoRes = inferMemo(memoInput)]
       /\ Finish(assemble(variant, isMainnet, sourceAccount, destination,
                          operationType, amount, inferMemo(memoInput)))
  /\ UNCHANGED <<variant, isMainnet, retries, net, destination,
                 destinationExists, operationType, amount, memoType, reqs>>

(* -------------------------- broadcastTransaction ----------------------- *)
\* a slip the catch block could hold: the result codes never looked at
BroadcastCatchMessageOnly(error) ==
  <<Err(<<"Broadcast error:">> \o error.message)>>

\* what the catch block of broadcastTransaction prints for an error
BroadcastCatch(error) ==
  IF error.result_codes # "none"
  THEN <<Err(<<"Transaction failed:", error.result_codes>>)>>
  ELSE <<Err(<<"Broadcast error:">> \o error.message)>>

\* what broadcastTransaction prints for the answer to submitTransaction
BroadcastReport(reply) ==
  CASE reply.k = "success" ->
         <<Log(<<"Transaction successful!">>), Log(<<"Hash:", reply.hash>>),
           Log(<<"Ledger:", reply.ledger>>)>>
    [] reply.k = "rejected" ->
         BroadcastCatch([message |-> <<"Request failed with status code 400">>,
                         result_codes |-> reply.codes])
    [] OTHER ->
         BroadcastCatch([message |-> reply.message, result_codes |-> "none"])

\* 'Enter signed XDR: ' and TransactionBuilder.fromXDR
AskXdr ==
  /\ pc = "askXdr"
  /\ \E signedXdr \in XdrInputs :
       /\ Prompt
       /\ IF signedXdr = "garbage"
          THEN /\ hist' = [hist EXCEPT !.bcast = [k |-> "badXdr",
                                                  message |-> <<"XDR Read Error: invalid envelope">>],
                                       !.passphrase = Config(isMainnet).passphrase]
               /\ failed' = TRUE
               /\ MainReturn(BroadcastCatch([message |-> <<"XDR Read Error: invalid envelope">>,
                                             result_codes |-> "none"]),
                             "completed")
          ELSE /\ hist' = [hist EXCEPT !.passphrase = Config(isMainnet).passphrase]
               /\ failed' = failed
               /\ MainGoes(<<>>, "submit")
  /\ UNCHANGED <<variant, isMainnet, retries, net, sourceAccount, destination,
                 destinationExists, operationType, amount, memoType, txData, reqs>>

\* await server.submitTransaction(transaction) and the report
Submit ==
  /\ pc = "submit"
  /\ \E reply \in SubmitReplies :
       /\ Request("submit", reply.k)
       /\ hist' = [hist EXCEPT !.bcast = reply]
       /\ failed' = (reply.k # "success")
       /\ MainReturn(BroadcastReport(reply), "completed")
  /\ UNCHANGED <<variant, isMainnet, retries, net, sourceAccount, destination,
                 destinationExists, operationType, amount, memoType, txData, asked>>

(* ----------------------------- the ledger ------------------------------ *)
\* the places of the build path, from the first request to the last prompt
BuildPlaces ==
  {"checkActivation", "loadSource", "askDestination", "checkDestination",
   "askAmount", "memoType", "memoValue", "askMemo"}

\* the network while the builder waits: another transaction of the source
\* account is applied, or an account is created or merged away.  Only the
\* changes a run can tell from a different initial ledger are taken: after
\* the builder's first request, and of an account it will still ask for.
LedgerChange ==
  /\ pc \in BuildPlaces
  /\ reqs # <<>>
  /\ net.changes < MaxLedgerChanges
  /\ \E n \in {[net EXCEPT !.seq = @ + 1]}
              \cup (IF pc = "loadSource" THEN {[net EXCEPT !.srcExists = ~@]} ELSE {})
              \cup (IF variant = "network" /\ pc \in {"loadSource", "askDestination", "checkDestination"}
                    THEN {[net EXCEPT !.dstExists = ~@]} ELSE {}) :
       net' = [n EXCEPT !.changes = @ + 1]
  /\ UNCHANGED <<variant, pc, isMainnet, retries, sourceAccount, destination,
                 destinationExists, operationType, amount, memoType, txData,
                 out, reqs, asked, rlClosed, exitCode, outcome, failed, hist>>

Next ==
  \/ SelectNetwork
  \/ ConfirmMainnet
  \/ SelectOperation
  \/ CheckAccountActivation
  \/ LoadSourceAccount
  \/ AskDestination
  \/ CheckDestination
  \/ AskAmount
  \/ SelectMemoType
  \/ EnterMemoValue
  \/ AskMemo
  \/ AskXdr
  \/ Submit
  \/ LedgerChange

Spec == Init /\ [][Next]_vars

(* ------------------------------ claims --------------------------------- *)
Done == pc = "done"

LastLine == out[Len(out)]

\* C1: a run that has ended has exit code 0 when main completed or the user
\* cancelled at the mainnet confirmation, and exit code 1 when an error reached
\* main's handler, which printed it after "Error:"; a run that has not ended
\* has no exit code, and no other exit code occurs.
C1_ExitCodes ==
  /\ Done <=> exitCode # -1
  /\ Done => /\ outcome \in {"completed", "cancelled", "caught"}
             /\ outcome \in {"completed", "cancelled"} <=> exitCode = 0
             /\ outcome = "caught" <=> exitCode = 1
             /\ outcome = "caught" =>
                  /\ LastLine.s = "error"
                  /\ Head(LastLine.t) = "Error:"
                  /\ Len(LastLine.t) > 1
             /\ outcome = "cancelled" => LastLine = Log(<<"Operation cancelled.">>)

\* an error reached main's handler and the process ended with code 1
C1_Witness == Done /\ outcome = "caught" /\ exitCode = 1 /\ failed

\* C2: rl is closed on every exit path of main: success, error, cancellation.
C2_ClosedOnEveryExit == Done => rlClosed

\* C3: in the network variant the assembled transaction carries CreateAccount
\* exactly when the destination did not exist on the network when the
\* destination check ran, and Payment exactly when it existed.
C3_CreateAccountIffAbsent ==
  (variant = "network" /\ txData.built) =>
    /\ txData.op.type = "createAccount" <=> hist.dstAtCheck = "absent"
    /\ txData.op.type = "payment" <=> hist.dstAtCheck = "exists"

\* C4: when a load of the source account made by the builder answered 404, the
\* build is aborted, no envelope is printed, and the reported error carries the
\* message that the source account was not found and must be funded first.
C4_NotFoundIsInstructional ==
  (Done /\ hist.src404) =>
    /\ outcome = "caught"
    /\ ~txData.built
    /\ IsFundMessage(LastLine.t)

\* C5: the assembled transaction's sequence number and the reported
\* details.sequence both equal N+1, N being the sequence of the last load of
\* the source account, whatever happened on the ledger since.
C5_SequenceIsLoadedPlusOne ==
  txData.built =>
    /\ txData.sequence = hist.loadedSeq + 1
    /\ txData.details.sequence = hist.loadedSeq + 1

\* what C6 calls a valid amount: it parses to a finite number above 0 and,
\* for create-account, to at least the reserve of 1.0000000
C6_Valid(amt, opType) ==
  LET n == ParseFloat(amt)
  IN /\ n.k = "num"
     /\ n.v > 0
     /\ opType = "createAccount" => n.v >= 10000000

\* C6: the amount loop lets an answer through exactly when it parses to a
\* finite number above 0 and, on the create-account path, to at least the
\* reserve; every other answer is asked again.
C6_AmountAcceptedIffValid ==
  hist.amtSeen =>
    /\ hist.amtAccepted <=> C6_Valid(hist.amtIn, operationType)
    /\ ~hist.amtAccepted => pc = "askAmount"

AllIn(s, set) == \A i \in DOMAIN s : s[i] \in set

\* the string denotes an integer of [0, 18446744073709551615]
C7_DenotesUint64(s) ==
  LET body == IF s # <<>> /\ Head(s) \in {"-", "+"} THEN Tail(s) ELSE s
      mag == StripZeros([i \in DOMAIN body |-> DigitVal(body[i])])
  IN /\ body # <<>>
     /\ AllIn(body, Digits)
     /\ Head(s) = "-" => mag = <<0>>
     /\ ~MagGreater(mag, U64Max)

\* the rule of C7 for each type of the menu
C7_Rule(type, s) ==
  CASE type = "1" -> SumWidth(s) <= 28
    [] type = "2" -> C7_DenotesUint64(s)
    [] OTHER -> Len(s) = 64 /\ AllIn(s, HexChars)

C7_TypeName(type) ==
  CASE type = "1" -> "text" [] type = "2" -> "id" [] type = "3" -> "hash"
    [] OTHER -> "return"

\* C7: in the menu variants getMemoInput returns the memo of the selected type
\* exactly when the value meets the type's rule and throws an error with a
\* message otherwise, which ends the run in main's handler; choice 5 gives no
\* memo and asks for no value.
C7_MemoRules ==
  (variant \in {"network", "testnet"} /\ hist.memoSeen) =>
    IF memoType = "5"
    THEN ~hist.memoAsked /\ hist.memoRes = Returned(NoMemo)
    ELSE /\ hist.memoAsked
         /\ hist.memoRes.ok <=> C7_Rule(memoType, hist.memoIn)
         /\ hist.memoRes.ok =>
              hist.memoRes.memo = [type |-> C7_TypeName(memoType), value |-> hist.memoIn]
         /\ ~hist.memoRes.ok =>
              /\ hist.memoRes.message # <<>>
              /\ Done /\ outcome = "caught" /\ ~txData.built
              /\ LastLine = Err(<<"Error:", "Failed to build transaction: ">>
                                \o hist.memoRes.message)

\* the largest Id was accepted and is the memo of a built transaction
C7_Witness ==
  /\ variant = "network" /\ memoType = "2" /\ txData.built
  /\ [i \in DOMAIN hist.memoIn |-> DigitVal(hist.memoIn[i])] = U64Max
  /\ txData.memo.type = "id"

IsReport(line) ==
  Head(line.t) \in {"Hash:", "Ledger:", "Transaction failed:", "Broadcast error:"}

\* C8: a broadcast prints the hash and the ledger the network returned on
\* success, the result codes when the error carries them, and the raw error
\* message on every other failure (an envelope that does not deserialize
\* included): exactly one of the three reports.
C8_BroadcastReports ==
  (Done /\ hist.bcast.k # "none") =>
    SelectSeq(out, IsReport) =
      CASE hist.bcast.k = "success" ->
             <<Log(<<"Hash:", hist.bcast.hash>>), Log(<<"Ledger:", hist.bcast.ledger>>)>>
        [] hist.bcast.k = "rejected" ->
             <<Err(<<"Transaction failed:", hist.bcast.codes>>)>>
        [] OTHER ->
             <<Err(<<"Broadcast error:">> \o hist.bcast.message)>>

\* a rejected submission was reported by its result codes
C8_Witness ==
  /\ Done /\ hist.bcast.k = "rejected"
  /\ LastLine = Err(<<"Transaction failed:", "tx_bad_seq">>)

CountReqs(kind) == Cardinality({i \in DOMAIN reqs : reqs[i].kind = kind})

\* C9: no request is repeated (one submit per run, one lookup of the
\* destination, the source account loaded once per loading step), and once a
\* failure has occurred nothing more is asked, requested or built, and the
\* run ends with the error reported.
C9_NoRetryAbortOnFailure ==
  /\ [](/\ CountReqs("submit") <= 1
        /\ CountReqs("loadDestination") <= 1
        /\ CountReqs("loadSource") <= 2)
  /\ [][failed => (asked' = asked /\ reqs' = reqs /\ txData' = txData)]_vars
  /\ []((Done /\ failed) => \E i \in DOMAIN out : out[i].s = "error")

\* the memo C10 expects for an input
C10_ClaimedMemo(s) ==
  IF s = <<>> THEN NoMemo
  ELSE IF AllIn(s, Digits) THEN [type |-> "id", value |-> s]
  ELSE [type |-> "text", value |-> s]

C10_AmendedMemo(s) ==
  IF s = <<>> THEN NoMemo
  ELSE IF AllIn(s, Digits) /\ Len(s) <= 19 THEN [type |-> "id", value |-> s]
  ELSE [type |-> "text", value |-> s]

C11_After(p) ==
  CASE p = "selectNetwork" -> {"selectNetwork", "confirm", "selectOperation"}
    [] p = "confirm" -> {"selectOperation", "done"}
    [] p = "selectOperation" -> {"selectOperation", "checkActivation", "askXdr"}
    [] p = "checkActivation" -> {"loadSource", "done"}
    [] p = "loadSource" -> {"askDestination", "done"}
    [] p = "askDestination" ->
         {"askDestination", IF variant = "network" THEN "checkDestination" ELSE "askAmount"}
    [] p = "checkDestination" -> {"askAmount"}
    [] p = "askAmount" ->
         {"askAmount", IF variant = "infer" THEN "askMemo" ELSE "memoType"}
    [] p = "memoType" -> {"memoType", "memoValue", "done"}
    [] p = "memoValue" -> {"done"}
    [] p = "askMemo" -> {"done"}
    [] p = "askXdr" -> {"submit", "done"}
    [] p = "submit" -> {"done"}
    [] OTHER -> {}

\* a well-formed public-key account identifier
C11_AddressOk(a) == a.ver = "G" /\ a.len = 56 /\ a.crc

EnvelopePrinted == \E i \in DOMAIN out : out[i] = Log(<<"<envelope xdr>">>)

\* C11: the run goes network choice, operation choice, then build and display
\* or broadcast; the build goes destination, destination check, operation
\* type, amount, memo, assembly and print; a place is only stayed at by asking
\* its own prompt again after an invalid answer, never gone back to; and an
\* envelope is printed only after a destination and an amount that pass their
\* validators.
C11_LinearFlow ==
  /\ [][pc' # pc => pc' \in C11_After(pc)]_vars
  /\ [][(pc' = pc /\ asked' # asked) =>
          /\ pc \in {"selectNetwork", "selectOperation", "askDestination",
                     "askAmount", "memoType"}
          /\ asked' = asked + 1 /\ retries' = retries + 1
          /\ reqs' = reqs /\ txData' = txData
          /\ pc = "askDestination" => ~C11_AddressOk(destination')
          /\ pc = "askAmount" => ~C6_Valid(amount', operationType)]_vars
  /\ [][(pc' = pc /\ asked' = asked) =>
          UNCHANGED <<out, reqs, txData, destination, amount, operationType>>]_vars
  /\ [][pc # "checkDestination" => operationType' = operationType]_vars
  /\ [][pc \notin {"memoType", "memoValue", "askMemo"} => txData' = txData]_vars
  /\ [](EnvelopePrinted =>
          /\ Done /\ outcome = "completed" /\ txData.built
          /\ LastLine = Log(<<"<envelope xdr>">>)
          /\ C11_AddressOk(destination) /\ txData.op.destination = destination
          /\ C6_Valid(amount, operationType)
          /\ txData.op.amount = formatAmount(amount)
          /\ txData.op.type = operationType
          /\ hist.memoSeen
          /\ variant = "network" => hist.lookup # "none")
  /\ []((Done /\ txData.built) => EnvelopePrinted)

\* a create-account envelope was printed after a prompt had been asked again
C11_Witness ==
  /\ variant = "network" /\ EnvelopePrinted /\ retries > 0
  /\ txData.op.type = "createAccount"

\* the public network: its Horizon server, its passphrase and its network id,
\* the SHA-256 of the passphrase
C12_Mainnet ==
  [horizon |-> "https://horizon.stellar.org",
   passphrase |-> "Public Global Stellar Network ; September 2015",
   hash |-> "7ac33997544e3175d266bd022439b22cdb16508c01163f26e5cb2a3e1045a979"]

\* 'yes' in any mix of upper and lower case
C12_IsYes(s) ==
  /\ Len(s) = 3
  /\ s[1] \in {"y", "Y"} /\ s[2] \in {"e", "E"} /\ s[3] \in {"s", "S"}

C12_Answered == hist.confirm # <<"-">>

\* C12: with mainnet selected, no request is sent and no operation prompt is
\* asked unless the confirmation was answered 'yes' in any case; any other
\* answer ends the run with 'Operation cancelled.' and nothing built or
\* broadcast; and a run that proceeds uses the Horizon server, the passphrase
\* and the network hash of mainnet.
C12_MainnetConfirmed ==
  /\ outcome = "cancelled" => isMainnet
  /\ isMainnet =>
       /\ variant = "network"
       /\ ( \/ reqs # <<>>
            \/ pc \notin {"selectNetwork", "confirm", "done"}
            \/ txData.built
            \/ hist.bcast.k # "none"
            \/ hist.passphrase # ""
            \/ Done /\ outcome # "cancelled" ) => C12_IsYes(hist.confirm)
       /\ pc \in {"selectNetwork", "confirm"} => ~C12_Answered
       /\ (C12_Answered /\ ~C12_IsYes(hist.confirm)) =>
            /\ Done /\ outcome = "cancelled" /\ exitCode = 0
            /\ LastLine = Log(<<"Operation cancelled.">>)
            /\ asked = 2 + retries
            /\ reqs = <<>> /\ ~txData.built /\ hist.bcast.k = "none"
       /\ (C12_Answered /\ C12_IsYes(hist.confirm)) => outcome # "cancelled"
       /\ \A i \in DOMAIN reqs : reqs[i].horizon = C12_Mainnet.horizon
       /\ txData.built =>
            /\ txData.passphrase = C12_Mainnet.passphrase
            /\ txData.networkHash = C12_Mainnet.hash
       /\ hist.passphrase # "" => hist.passphrase = C12_Mainnet.passphrase

\* mainnet was confirmed with 'YES' and a transaction was built for it
C12_Witness ==
  /\ isMainnet /\ hist.confirm = <<"Y", "E", "S">>
  /\ txData.built /\ Len(reqs) = 3

====
